---- MODULE Spec2Model ----
(***************************************************************************)
(* Concurrent ZIP extraction of the two example programs                   *)
(*   examples/rs-zip-index/src/main.rs   (program "rs_zip_index")          *)
(*   examples/file_muti_extraction.rs    (program "file_muti_extraction")  *)
(* A string is a sequence of one-character strings; a file's content and   *)
(* an entry's stream are sequences of bytes (small naturals).  The file    *)
(* system is a function from absolute, normalised component sequences to   *)
(* nodes; a path string is resolved against the working directory the way  *)
(* the kernel does (without symbolic links).                               *)
(***************************************************************************)
EXTENDS Naturals, Sequences, FiniteSets, TLC

VARIABLES
    san_in,     \* sanitize harness: the raw entry name handed to sanitize_file_path
    san_out,    \* sanitize harness: the PathBuf it returned
    san_pc,     \* sanitize harness: "call" before, "ret" after the call
    windows,    \* cfg!(windows) of the build (sanitize_filename's default option)
    program,    \* which of the two example programs runs
    out_dir,    \* the out_dir argument of unzip_file
    catalog,    \* reader.file().entries(): sequence of [name, dir, data]
    fs,         \* the file system: absolute component sequence -> node
    task,       \* the spawned write_entity tasks, by entry index (1-based)
    cpc,        \* position of unzip_file: "spawn", "join", "returned"
    reported,   \* the entries unzip_file reported as failed to its caller
    run,        \* which call of unzip_file this is (1 or 2)
    tree1,      \* the file system when the first call returned
    fs0         \* the file system when the first call started

vars == <<san_in, san_out, san_pc, windows, program, out_dir, catalog, fs, task,
          cpc, reported, run, tree1, fs0>>

sanVars == <<san_in, san_out, san_pc>>
runVars == <<program, out_dir, catalog, fs, task, cpc, reported, run, tree1, fs0>>

(***************************************************************************)
(* Bounds                                                                  *)
(***************************************************************************)
MaxLen == 3          \* longest raw name the sanitize harness enumerates
MaxEntries == 2      \* most entries of a catalog

(***************************************************************************)
(* Strings                                                                 *)
(* Only({e(x) : x \in {v}}) is e at the value of v: v is computed once and *)
(* not again at each use of x.                                             *)
(***************************************************************************)
Only(S) == CHOOSE x \in S : TRUE

Last(s) == s[Len(s)]
Front(s) == SubSeq(s, 1, Len(s) - 1)

\* the index of the first occurrence of c in s, or 0
FirstIndex(s, c) ==
    IF \E i \in 1..Len(s) : s[i] = c
    THEN CHOOSE i \in 1..Len(s) : s[i] = c /\ \A j \in 1..(i - 1) : s[j] # c
    ELSE 0

\* a sanitizer that leaves the backslashes to sanitize_filename (not the code)
ReplaceBackslashKept(s) == s

\* str::replace('\\', "/")
ReplaceBackslash(s) == [i \in 1..Len(s) |-> IF s[i] = "\\" THEN "/" ELSE s[i]]

\* str::split('/'): n separators give n + 1 pieces, empty ones included
RECURSIVE SplitSlash(_)
SplitSlash(str) ==
    Only({ Only({ IF i = 0 THEN <<s>>
                  ELSE <<SubSeq(s, 1, i - 1)>> \o SplitSlash(SubSeq(s, i + 1, Len(s)))
                  : i \in {FirstIndex(s, "/")} })
           : s \in {str} })

(***************************************************************************)
(* sanitize_filename::sanitize with its default options                    *)
(*   { windows: cfg!(windows), truncate: true, replacement: "" }           *)
(***************************************************************************)
\* ILLEGAL_RE  [/\?<>\\:\*\|":]
IsIllegal(c) == c \in {"/", "?", "<", ">", "\\", ":", "*", "|", "\""}

\* CONTROL_RE  [\x00-\x1f\x80-\x9f]  (the control characters a TLA+ string can hold)
IsControl(c) == c \in {"\t", "\n", "\r", "\f"}

\* RESERVED_RE  ^\.+$
AllDots(s) == Len(s) > 0 /\ \A i \in 1..Len(s) : s[i] = "."

LowerChar(c) ==
    CASE c = "A" -> "a" [] c = "C" -> "c" [] c = "L" -> "l" [] c = "M" -> "m"
      [] c = "N" -> "n" [] c = "O" -> "o" [] c = "P" -> "p" [] c = "R" -> "r"
      [] c = "T" -> "t" [] c = "U" -> "u" [] c = "X" -> "x" [] OTHER -> c

Lower(s) == [i \in 1..Len(s) |-> LowerChar(s[i])]

Digits == {"0", "1", "2", "3", "4", "5", "6", "7", "8", "9"}

\* WINDOWS_RESERVED_RE  (?i)^(con|prn|aux|nul|com[0-9]|lpt[0-9])(\..*)?$
WindowsReserved(s) ==
    LET i == FirstIndex(s, ".")
        base == Lower(IF i = 0 THEN s ELSE SubSeq(s, 1, i - 1))
    IN  \/ base \in {<<"c", "o", "n">>, <<"p", "r", "n">>, <<"a", "u", "x">>,
                     <<"n", "u", "l">>}
        \/ /\ Len(base) = 4
           /\ SubSeq(base, 1, 3) \in {<<"c", "o", "m">>, <<"l", "p", "t">>}
           /\ base[4] \in Digits

\* WINDOWS_TRAILING_RE  [\. ]+$
RECURSIVE StripTrailing(_)
StripTrailing(str) ==
    Only({ IF Len(s) > 0 /\ Last(s) \in {".", " "} THEN StripTrailing(Front(s)) ELSE s
           : s \in {str} })

\* truncate: the first 255 bytes are kept
Truncate(s) == IF Len(s) > 255 THEN SubSeq(s, 1, 255) ELSE s

\* the same without RESERVED_RE (not the library)
SanitizeNoReserved(name, win) ==
    LET a == SelectSeq(name, LAMBDA c : ~IsIllegal(c))
        b == SelectSeq(a, LAMBDA c : ~IsControl(c))
        d == IF win THEN StripTrailing(IF WindowsReserved(b) THEN <<>> ELSE b)
             ELSE b
    IN  Truncate(d)

Sanitize(name, win) ==
    LET a == SelectSeq(name, LAMBDA c : ~IsIllegal(c))
        b == SelectSeq(a, LAMBDA c : ~IsControl(c))
        r == IF AllDots(b) THEN <<>> ELSE b
        d == IF win THEN StripTrailing(IF WindowsReserved(r) THEN <<>> ELSE r)
             ELSE r
    IN  Truncate(d)

(***************************************************************************)
(* std::path (Unix)                                                        *)
(***************************************************************************)
IsAbsolute(p) == Len(p) > 0 /\ p[1] = "/"

\* PathBuf::push
PathPush(buf, p) ==
    LET need_sep == Len(buf) > 0 /\ Last(buf) # "/"
    IN  IF IsAbsolute(p) THEN p
        ELSE IF need_sep THEN buf \o <<"/">> \o p
        ELSE buf \o p

\* impl FromIterator for PathBuf: PathBuf::new(), then push every item
RECURSIVE CollectPath(_, _)
CollectPath(buf, segs) ==
    Only({ IF a[2] = <<>> THEN a[1]
           ELSE CollectPath(PathPush(a[1], Head(a[2])), Tail(a[2]))
           : a \in {<<buf, segs>>} })

\* Path::join
PathJoin(base, p) == PathPush(base, p)

sanitize_file_path(path, win) ==
    Only({ CollectPath(<<>>, [i \in 1..Len(segs) |-> Sanitize(segs[i], win)])
           : segs \in {SplitSlash(ReplaceBackslash(path))} })

\* Path::components: RootDir is <<"/">>, CurDir <<".">>, ParentDir <<".", ".">>,
\* anything else a Normal component.  Empty pieces are skipped, and so is "."
\* unless it leads a relative path.
RootDir == <<"/">>
CurDir == <<".">>
ParentDir == <<".", ".">>

Components(p) ==
    Only({ LET keep(i) == /\ pieces[i] # <<>>
                          /\ (pieces[i] = CurDir => (i = 1 /\ ~IsAbsolute(p)))
           IN  (IF IsAbsolute(p) THEN <<RootDir>> ELSE <<>>)
               \o SelectSeq([i \in 1..Len(pieces) |->
                                 IF keep(i) THEN pieces[i] ELSE <<>>],
                            LAMBDA c : c # <<>>)
           : pieces \in {SplitSlash(p)} })

\* Path::parent on a component sequence: None for "" and for the root alone
HasParent(comps) == Len(comps) > 0 /\ Last(comps) # RootDir
Parent(comps) == Front(comps)

\* whether the path string ends in a separator (the kernel then demands a directory)
TrailingSep(p) == Len(p) > 0 /\ Last(p) = "/" /\ Components(p) # <<RootDir>>

(***************************************************************************)
(* The file system, as the kernel serves the calls the programs make       *)
(***************************************************************************)
\* std::env::current_dir(): the working directory of the process
CwdPath == <<"/", "w">>

DirNode == [kind |-> "dir"]
FileNode(bytes) == [kind |-> "file", data |-> bytes]

RECURSIVE Walk(_, _)
Walk(from, comps) ==
    Only({ LET abs == a[1]
               c == Head(a[2])
           IN  IF a[2] = <<>> THEN abs
               ELSE Walk(IF c = RootDir THEN <<>>
                         ELSE IF c = CurDir THEN abs
                         ELSE IF c = ParentDir THEN (IF abs = <<>> THEN abs ELSE Front(abs))
                         ELSE Append(abs, c),
                         Tail(a[2]))
           : a \in {<<from, comps>>} })

CwdAbs == Walk(<<>>, Components(CwdPath))

\* the absolute, normalised location a path string names
Resolve(p) == Walk(CwdAbs, Components(p))

\* stat(2) succeeds: a trailing separator demands a directory
StatOk(f, p) ==
    /\ p # <<>>
    /\ Resolve(p) \in DOMAIN f
    /\ TrailingSep(p) => f[Resolve(p)].kind = "dir"

\* an existence check that takes "d/" for "d" (not the kernel)
PathExistsAnyKind(f, p) == p # <<>> /\ Resolve(p) \in DOMAIN f

\* Path::exists and Path::is_dir
PathExists(f, p) == StatOk(f, p)
PathIsDir(f, p) == StatOk(f, p) /\ f[Resolve(p)].kind = "dir"

\* mkdir(2): "ok", or the io::ErrorKind it fails with
MkdirResult(f, p) ==
    LET abs == Resolve(p)
    IN  IF p = <<>> THEN "NotFound"
        ELSE IF abs \in DOMAIN f THEN "AlreadyExists"
        ELSE IF Front(abs) \notin DOMAIN f THEN "NotFound"
        ELSE IF f[Front(abs)].kind # "dir" THEN "NotADirectory"
        ELSE "ok"

MkdirApply(f, p) == (Resolve(p) :> DirNode) @@ f

\* open(2) with O_WRONLY | O_CREAT, as OpenOptions::new().write(true).create(true)
\* asks for: no O_TRUNC, no O_APPEND
OpenResult(f, p) ==
    LET abs == Resolve(p)
    IN  IF p = <<>> THEN "NotFound"
        ELSE IF abs \in DOMAIN f
        THEN IF f[abs].kind = "dir" THEN "IsADirectory"
             ELSE IF TrailingSep(p) THEN "NotADirectory"
             ELSE "ok"
        ELSE IF Front(abs) \notin DOMAIN f THEN "NotFound"
        ELSE IF f[Front(abs)].kind # "dir" THEN "NotADirectory"
        ELSE IF TrailingSep(p) THEN "IsADirectory"
        ELSE "ok"

OpenApply(f, p) ==
    IF Resolve(p) \in DOMAIN f THEN f ELSE (Resolve(p) :> FileNode(<<>>)) @@ f

\* write(2) of one byte at offset pos (0-based) of an open regular file
WriteAt(bytes, pos, b) ==
    IF pos < Len(bytes) THEN [bytes EXCEPT ![pos + 1] = b] ELSE Append(bytes, b)

WriteApply(f, p, pos, b) ==
    [f EXCEPT ![Resolve(p)] = FileNode(WriteAt(f[Resolve(p)].data, pos, b))]

\* the path string of a component sequence (Components::as_path)
RECURSIVE CompsPath(_)
CompsPath(cs) ==
    Only({ IF comps = <<>> THEN <<>>
           ELSE IF Head(comps) = RootDir THEN <<"/">> \o CompsPath(Tail(comps))
           ELSE IF Len(comps) = 1 THEN Head(comps)
           ELSE Head(comps) \o <<"/">> \o CompsPath(Tail(comps))
           : comps \in {cs} })

ParentPath(p) == CompsPath(Parent(Components(p)))

(***************************************************************************)
(* Inputs of an extraction run                                             *)
(***************************************************************************)
Str_o == <<"o">>

\* entries of the archive: raw name, ZipEntry::dir(), decompressed bytes
EntryPool ==
    { [name |-> <<"d", "/">>,            dir |-> TRUE,  data |-> <<>>],
      [name |-> <<"d", "/", "f">>,       dir |-> FALSE, data |-> <<1>>],
      [name |-> <<"d">>,                 dir |-> FALSE, data |-> <<2>>],
      [name |-> <<"f">>,                 dir |-> FALSE, data |-> <<1, 2>>],
      [name |-> <<".", ".", "/", "f">>,  dir |-> FALSE, data |-> <<3>>] }

Catalogs == UNION {[1..n -> EntryPool] : n \in 0..MaxEntries}

OutDirs == {Str_o}

Programs == {"rs_zip_index", "file_muti_extraction"}

\* the working directory holds nothing, or already holds files where entries land
EmptyTree == (<<>> :> DirNode) @@ (<<<<"w">>>> :> DirNode)

StaleTree ==
    (<<<<"w">>, <<"f">>>> :> FileNode(<<7, 8, 9>>))
    @@ (<<<<"w">>, Str_o>> :> DirNode)
    @@ (<<<<"w">>, Str_o, <<"f">>>> :> FileNode(<<7, 8, 9>>))
    @@ EmptyTree

InitTrees == {EmptyTree, StaleTree}

Indices == 1..Len(catalog)

\* a task's locals: path and dir (entry_is_dir); cur and stack of its
\* create_dir_all; off, the offset its file handle started at, and pos, the
\* number of bytes copied so far; err, why it failed
Unspawned == [pc |-> "unspawned", path |-> <<>>, dir |-> FALSE, cur |-> <<>>,
              stack |-> <<>>, off |-> 0, pos |-> 0, err |-> "none"]

(***************************************************************************)
(* unzip_file                                                              *)
(***************************************************************************)
Spawned == {i \in Indices : task[i].pc # "unspawned"}

\* a JoinHandle that never resolves when its task panicked (not tokio)
TerminatedDoneOnly(i) == task[i].pc = "done"

\* a JoinHandle resolves when its task has run to its end or panicked
Terminated(i) == task[i].pc \in {"done", "failed"}

\* for i in 0..entries().len() { handles.push(tokio::spawn(write_entity(i, ..))) }
Spawn ==
    /\ cpc = "spawn"
    /\ Cardinality(Spawned) < Len(catalog)
    /\ LET i == Cardinality(Spawned) + 1
       IN  task' = [task EXCEPT ![i].pc = "start"]
    /\ UNCHANGED <<program, out_dir, catalog, fs, cpc, reported, run, tree1, fs0>>
    /\ UNCHANGED <<sanVars, windows>>

\* a loop that leaves off after its first round (not the code)
RangeExhaustedAfterOne == Cardinality(Spawned) >= 1 \/ Len(catalog) = 0

\* 0..entries().len() has no next index
RangeExhausted == Cardinality(Spawned) = Len(catalog)

\* the range is exhausted: the loop ends and join_all is awaited
LoopEnd ==
    /\ cpc = "spawn"
    /\ RangeExhausted
    /\ cpc' = "join"
    /\ UNCHANGED <<program, out_dir, catalog, fs, task, reported, run, tree1, fs0>>
    /\ UNCHANGED <<sanVars, windows>>

\* a join that resolves with the first handle, as select_all would (not the code)
JoinAny == Indices = {} \/ \E i \in Indices : Terminated(i)

\* join_all resolves once every JoinHandle has resolved, Ok or Err(JoinError)
JoinReady == \A i \in Indices : Terminated(i)

\* what unzip_file hands back: join_all's Vec<Result<(), JoinError>> is dropped
\* and the function returns ()
ReportedFailures(results) == {}

Join ==
    /\ cpc = "join"
    /\ JoinReady
    /\ cpc' = "returned"
    /\ reported' = ReportedFailures({i \in Indices : task[i].pc = "failed"})
    /\ tree1' = IF run = 1 THEN fs ELSE tree1
    /\ UNCHANGED <<program, out_dir, catalog, fs, task, run, fs0>>
    /\ UNCHANGED <<sanVars, windows>>

(***************************************************************************)
(* write_entity                                                            *)
(***************************************************************************)
\* the directory the entry's path is joined to
BaseDir(prog, dir) == IF prog = "rs_zip_index" THEN dir ELSE CwdPath

TargetPath(i) ==
    PathJoin(BaseDir(program, out_dir), sanitize_file_path(catalog[i].name, windows))

\* a task that has ended holds no locals any more
Ended(pc, why) == [Unspawned EXCEPT !.pc = pc, !.err = why]

\* an error that is ignored: the task goes on to its open (not the code)
FailIgnored(i, why) == task' = [task EXCEPT ![i].pc = "open"]

\* a failed .unwrap() or .expect(..) panics: the task ends, its JoinHandle is Err
Fail(i, why) == task' = [task EXCEPT ![i] = Ended("failed", why)]

Finish(i) == task' = [task EXCEPT ![i] = Ended("done", "none")]

\* the task goes on at pc, or has run to its end
Goto(i, pc, t) ==
    IF pc = "done" THEN Finish(i)
    ELSE task' = [task EXCEPT ![i] = [t EXCEPT !.pc = pc,
                                               !.cur = IF pc = "open" THEN <<>> ELSE @]]

taskFrame == <<program, out_dir, catalog, cpc, reported, run, tree1, fs0>>


\* entries().get(index).unwrap(), filename().as_str().unwrap(), out_dir.join(..),
\* entry.dir().unwrap(), reader.reader_without_entry(index).await.expect(..):
\* none of them touches the output tree
Lookup(i) ==
    /\ task[i].pc = "start"
    /\ task' = [task EXCEPT ![i].pc = "check",
                            ![i].path = TargetPath(i),
                            ![i].dir = catalog[i].dir]
    /\ UNCHANGED <<fs, taskFrame, sanVars, windows>>

\* a program that counts on the directory entry having come first (not the code)
ParentMissingNever(f, parent) == FALSE

\* if !parent.is_dir()
ParentMissing(f, parent) == ~PathIsDir(f, parent)

\* a create_dir_all that takes every failed mkdir for an error (not the library)
MkdirFailedStrict(f, p) == FALSE

\* Err(_) if path.is_dir() => Ok(()): a failed mkdir on a path that is a directory
\* by now counts as success
MkdirFailedOk(f, p) == PathIsDir(f, p)

\* an open with append(true): every write goes to the end of the file (not the code)
StartOffsetAppend(f, p) ==
    IF Resolve(p) \in DOMAIN f /\ f[Resolve(p)].kind = "file"
    THEN Len(f[Resolve(p)].data) ELSE 0

\* write(true) without append(true): the handle starts at offset 0
StartOffset(f, p) == 0

\* if entry_is_dir { if !path.exists() {..} }
\* else { parent = path.parent().expect(..); if !parent.is_dir() {..} }
Check(i) ==
    /\ task[i].pc = "check"
    /\ LET t == task[i]
       IN  IF t.dir
           THEN IF ~PathExists(fs, t.path)
                THEN task' = [task EXCEPT ![i].pc = "mkdir", ![i].cur = t.path]
                ELSE Finish(i)
           ELSE IF ~HasParent(Components(t.path))
                THEN Fail(i, "NoParent")
                ELSE IF ParentMissing(fs, ParentPath(t.path))
                     THEN task' = [task EXCEPT ![i].pc = "mkdir",
                                               ![i].cur = ParentPath(t.path)]
                     ELSE task' = [task EXCEPT ![i].pc = "open"]
    /\ UNCHANGED <<fs, taskFrame, sanVars, windows>>

\* where a task goes when its create_dir_all has returned Ok
AfterMkdir(t) == IF t.dir THEN "done" ELSE "open"

\* std::fs::create_dir_all, one mkdir(2) at a time.  cur is the path of the
\* innermost call, before its first mkdir; stack holds the paths of the calls
\* waiting for their parent, innermost last.  An mkdir that fails is followed by
\* path.is_dir(); nothing is ever removed, so the two are taken as one step.
MkdirDown(i) ==
    /\ task[i].pc = "mkdir"
    /\ LET t == task[i]
           r == MkdirResult(fs, t.cur)
           ret == IF t.stack = <<>> THEN AfterMkdir(t) ELSE "mkdir_up"
       IN  IF Components(t.cur) = <<>>
           THEN /\ Goto(i, ret, t)
                /\ fs' = fs
           ELSE IF r = "ok"
           THEN /\ Goto(i, ret, t)
                /\ fs' = MkdirApply(fs, t.cur)
           ELSE IF r = "NotFound"
           THEN /\ fs' = fs
                /\ IF HasParent(Components(t.cur))
                   THEN task' = [task EXCEPT ![i].stack = Append(t.stack, t.cur),
                                             ![i].cur = ParentPath(t.cur)]
                   ELSE Fail(i, "Mkdir")
           ELSE /\ fs' = fs
                /\ IF MkdirFailedOk(fs, t.cur)
                   THEN Goto(i, ret, t)
                   ELSE Fail(i, "Mkdir")
    /\ UNCHANGED <<taskFrame, sanVars, windows>>

\* the second mkdir of a call whose parent now exists
MkdirUp(i) ==
    /\ task[i].pc = "mkdir_up"
    /\ LET t == task[i]
           p == Last(t.stack)
           r == MkdirResult(fs, p)
           rest == Front(t.stack)
           ret == IF rest = <<>> THEN AfterMkdir(t) ELSE "mkdir_up"
       IN  IF r = "ok"
           THEN /\ Goto(i, ret, [t EXCEPT !.stack = rest])
                /\ fs' = MkdirApply(fs, p)
           ELSE /\ fs' = fs
                /\ IF MkdirFailedOk(fs, p)
                   THEN Goto(i, ret, [t EXCEPT !.stack = rest])
                   ELSE Fail(i, "Mkdir")
    /\ UNCHANGED <<taskFrame, sanVars, windows>>

\* OpenOptions::new().write(true).create(true).open(&path).await.expect(..)
Open(i) ==
    /\ task[i].pc = "open"
    /\ IF OpenResult(fs, task[i].path) = "ok"
       THEN /\ fs' = OpenApply(fs, task[i].path)
            /\ task' = [task EXCEPT ![i].pc = "copy",
                                    ![i].off = StartOffset(fs, task[i].path),
                                    ![i].pos = 0]
       ELSE /\ fs' = fs
            /\ Fail(i, "Open")
    /\ UNCHANGED <<taskFrame, sanVars, windows>>

\* futures_util::io::copy: read the next bytes of the entry, write them at the
\* handle's offset; at end of stream flush and return
Copy(i) ==
    /\ task[i].pc = "copy"
    /\ LET t == task[i]
           bytes == catalog[i].data
       IN  IF t.pos < Len(bytes)
           THEN /\ fs' = WriteApply(fs, t.path, t.off + t.pos, bytes[t.pos + 1])
                /\ task' = [task EXCEPT ![i].pos = t.pos + 1]
           ELSE /\ fs' = fs
                /\ Finish(i)
    /\ UNCHANGED <<taskFrame, sanVars, windows>>

\* a task that removes its target file when it fails (not the code)
AfterPanicRollback(f, p) ==
    IF p # <<>> /\ Resolve(p) \in DOMAIN f /\ f[Resolve(p)].kind = "file"
    THEN [q \in DOMAIN f \ {Resolve(p)} |-> f[q]]
    ELSE f

\* the panic unwinds the task: its locals are dropped, which closes the file;
\* nothing is removed or rolled back
AfterPanic(f, p) == f

\* an operation of the task fails for a reason outside the archive's names: the
\* name is not UTF-8, the entry cannot be read, the disk or the stream faults.
\* The .unwrap() / .expect(..) on it panics, which ends the task.
Fault(i) ==
    /\ task[i].pc \in {"start", "mkdir", "mkdir_up", "open", "copy"}
    /\ Fail(i, "Fault")
    /\ fs' = AfterPanic(fs, task[i].path)
    /\ UNCHANGED <<taskFrame, sanVars, windows>>

Injected(i) == task[i].err = "Fault"

(***************************************************************************)
(* A second call of unzip_file on the same archive and output directory    *)
(***************************************************************************)
Rerun ==
    /\ cpc = "returned"
    /\ run = 1
    /\ run' = 2
    /\ cpc' = "spawn"
    /\ task' = [i \in Indices |-> Unspawned]
    /\ reported' = {}
    /\ UNCHANGED <<program, out_dir, catalog, fs, tree1, fs0>>
    /\ UNCHANGED <<sanVars, windows>>

(***************************************************************************)
(* Sanitize harness                                                        *)
(***************************************************************************)
Alphabet == {"/", "\\", ".", ":", " ", "a", "n", "u", "l"}

RECURSIVE StringsUpTo(_)
StringsUpTo(n) ==
    IF n = 0 THEN {<<>>}
    ELSE LET shorter == StringsUpTo(n - 1)
         IN  shorter \cup {Append(s, c) : s \in {t \in shorter : Len(t) = n - 1},
                                           c \in Alphabet}

SanInit ==
    /\ san_in \in StringsUpTo(MaxLen)
    /\ san_out = <<>>
    /\ san_pc = "call"
    /\ windows \in BOOLEAN
    /\ program = "rs_zip_index"
    /\ out_dir = Str_o
    /\ catalog = <<>>
    /\ fs = EmptyTree
    /\ task = <<>>
    /\ cpc = "returned"
    /\ reported = {}
    /\ run = 2
    /\ tree1 = EmptyTree
    /\ fs0 = EmptyTree

SanCall ==
    /\ san_pc = "call"
    /\ san_out' = sanitize_file_path(san_in, windows)
    /\ san_pc' = "ret"
    /\ UNCHANGED <<san_in, windows, runVars>>

SanNext == SanCall

SanSpec == SanInit /\ [][SanNext]_vars

(***************************************************************************)
(* Extraction runs                                                         *)
(***************************************************************************)
Init ==
    /\ san_in = <<>>
    /\ san_out = <<>>
    /\ san_pc = "ret"
    /\ windows = FALSE
    /\ program \in Programs
    /\ out_dir \in OutDirs
    /\ catalog \in Catalogs
    /\ fs \in InitTrees
    /\ task = [i \in 1..Len(catalog) |-> Unspawned]
    /\ cpc = "spawn"
    /\ reported = {}
    /\ run = 1
    /\ tree1 = EmptyTree
    /\ fs0 = fs

Next ==
    \/ Spawn
    \/ LoopEnd
    \/ Join
    \/ \E i \in Indices : Lookup(i)
    \/ \E i \in Indices : Check(i)
    \/ \E i \in Indices : MkdirDown(i)
    \/ \E i \in Indices : MkdirUp(i)
    \/ \E i \in Indices : Open(i)
    \/ \E i \in Indices : Copy(i)
    \/ \E i \in Indices : Fault(i)

Spec == Init /\ [][Next]_vars

(***************************************************************************)
(* The same runs under a fair scheduler: the tokio runtime polls every     *)
(* task that can go on, and unzip_file itself; every file system and       *)
(* stream operation returns.                                               *)
(***************************************************************************)
TaskStep(i) ==
    /\ i \in Indices
    /\ \/ Lookup(i)
       \/ Check(i)
       \/ MkdirDown(i)
       \/ MkdirUp(i)
       \/ Open(i)
       \/ Copy(i)

Fairness ==
    /\ WF_vars(Spawn)
    /\ WF_vars(LoopEnd)
    /\ WF_vars(Join)
    /\ \A i \in 1..MaxEntries : WF_vars(TaskStep(i))

SpecLive == Init /\ [][Next]_vars /\ Fairness

(***************************************************************************)
(* Two calls in a row into an output directory that starts empty, with no  *)
(* fault from outside the archive                                          *)
(***************************************************************************)
InitTwice == Init /\ fs = EmptyTree

NextTwice ==
    \/ Spawn
    \/ LoopEnd
    \/ Join
    \/ Rerun
    \/ \E i \in Indices : Lookup(i)
    \/ \E i \in Indices : Check(i)
    \/ \E i \in Indices : MkdirDown(i)
    \/ \E i \in Indices : MkdirUp(i)
    \/ \E i \in Indices : Open(i)
    \/ \E i \in Indices : Copy(i)

SpecTwice == InitTwice /\ [][NextTwice]_vars

(***************************************************************************)
(* Runs on archives with names that sanitize to the empty path             *)
(***************************************************************************)
EdgePool ==
    { [name |-> <<".", ".">>,        dir |-> FALSE, data |-> <<3>>],
      [name |-> <<".", ".", "/">>,   dir |-> TRUE,  data |-> <<>>],
      [name |-> <<"d", "/", "f">>,   dir |-> FALSE, data |-> <<1>>] }

EdgeCatalogs == UNION {[1..n -> EdgePool] : n \in 0..MaxEntries}

InitEdge ==
    /\ san_in = <<>>
    /\ san_out = <<>>
    /\ san_pc = "ret"
    /\ windows = FALSE
    /\ program \in Programs
    /\ out_dir \in OutDirs
    /\ catalog \in EdgeCatalogs
    /\ fs \in InitTrees
    /\ task = [i \in 1..Len(catalog) |-> Unspawned]
    /\ cpc = "spawn"
    /\ reported = {}
    /\ run = 1
    /\ tree1 = EmptyTree
    /\ fs0 = fs

SpecEdge == InitEdge /\ [][Next]_vars

(***************************************************************************)
(* Vocabulary of the properties                                            *)
(***************************************************************************)
IsPrefix(a, b) == Len(a) <= Len(b) /\ SubSeq(b, 1, Len(a)) = a

\* the output root the caller named, as a location
RootAbs == Resolve(out_dir)

\* output_root.join(sanitize(name)), as a location
SpecTarget(i) ==
    Resolve(PathJoin(out_dir, sanitize_file_path(catalog[i].name, windows)))

\* the directory write_entity joins the sanitized name to, as a location
BaseAbs == Resolve(BaseDir(program, out_dir))

\* the location write_entity works on
Target(i) == Resolve(TargetPath(i))

\* the locations created or rewritten since the first call started
Touched == {p \in DOMAIN fs : p \notin DOMAIN fs0 \/ fs[p] # fs0[p]}

IsDirAt(f, abs) == abs \in DOMAIN f /\ f[abs].kind = "dir"
IsFileAt(f, abs) == abs \in DOMAIN f /\ f[abs].kind = "file"

Failed == {i \in Indices : task[i].pc = "failed"}
Done == {i \in Indices : task[i].pc = "done"}

NoFault == \A i \in Indices : ~Injected(i)

\* roots a sanitized path is joined to
JoinRoots == {Str_o, <<".">>, <<"/", "w", "o">>, <<"o", "/">>}

(***************************************************************************)
(* C1  For every raw name s, sanitize_file_path(s) is relative, none of    *)
(* its segments is "." or "..", and joined to an output root it resolves   *)
(* to the root or to a location under it.                                  *)
(***************************************************************************)
C1_SanitizeStaysUnderRoot ==
    san_pc = "ret" =>
        /\ ~IsAbsolute(san_out)
        /\ \A k \in 1..Len(SplitSlash(san_out)) :
               SplitSlash(san_out)[k] \notin {CurDir, ParentDir}
        /\ \A k \in 1..Len(Components(san_out)) :
               Components(san_out)[k] \notin {RootDir, CurDir, ParentDir}
        /\ \A root \in JoinRoots :
               IsPrefix(Resolve(root), Resolve(PathJoin(root, san_out)))

\* ".:/" is sanitized: the illegal ':' goes first, the lone "." after it
C1_Witness ==
    /\ san_pc = "ret"
    /\ san_in = <<".", ":", "/">>
    /\ san_out = <<>>

(***************************************************************************)
(* C2  Whatever a write_entity task creates or writes lies at              *)
(* output_root.join(sanitize(name)) of some entry or at an ancestor of it  *)
(* that is the output root or under it, output_root being the out_dir      *)
(* argument of unzip_file and not the working directory of the process.    *)
(***************************************************************************)
C2_WritesOnlyUnderOutputRoot ==
    \A p \in Touched :
        /\ IsPrefix(RootAbs, p)
        /\ \E i \in Indices : IsPrefix(p, SpecTarget(i))

(***************************************************************************)
(* C3  When unzip_file has returned and no operation failed, the tree      *)
(* under the output root has a directory at the sanitized target of every  *)
(* directory entry and a regular file holding exactly the entry's bytes at *)
(* the sanitized target of every file entry.                               *)
(***************************************************************************)
C3_TreeMirrorsCatalog ==
    (cpc = "returned" /\ Failed = {}) =>
        \A i \in Indices :
            IF catalog[i].dir THEN IsDirAt(fs, SpecTarget(i))
            ELSE /\ IsFileAt(fs, SpecTarget(i))
                 /\ fs[SpecTarget(i)].data = catalog[i].data

(***************************************************************************)
(* C4  When unzip_file has returned, every task it spawned has ended,      *)
(* completed or failed: none is pending or running.                        *)
(***************************************************************************)
C4_ReturnAfterAllTasks ==
    cpc = "returned" => \A i \in Indices : Terminated(i)

\* a return after one task failed early and the other ran to its end
C4_Witness ==
    /\ cpc = "returned"
    /\ Len(catalog) = 2
    /\ task[1].pc = "failed"
    /\ task[2].pc = "done"

(***************************************************************************)
(* C6  What unzip_file hands its caller after all tasks have finished      *)
(* names exactly the entries whose task failed: none when none failed.     *)
(***************************************************************************)
C6_ReportsFailedEntries ==
    cpc = "returned" => reported = Failed

(***************************************************************************)
(* C7  A file entry's task that completes on a target where a regular file *)
(* already was leaves exactly the entry's bytes in it.                     *)
(***************************************************************************)
C7_OpenTruncates ==
    [][\A i \in Indices :
          (/\ task[i].pc = "copy"
           /\ task'[i].pc = "done"
           /\ IsFileAt(fs0, Target(i)))
          => fs'[Target(i)].data = catalog[i].data]_vars

(***************************************************************************)
(* The reference the runs are compared with: the entries processed one at  *)
(* a time, in catalog order, each task run from its start to its end with  *)
(* no other task in between and no fault.                                  *)
(***************************************************************************)
\* create_dir_all(p) run alone on f: whether it returns Ok, and the tree it leaves
RECURSIVE CreateDirAllAlone(_, _)
CreateDirAllAlone(f, p) ==
    LET r == MkdirResult(f, p)
        up == CreateDirAllAlone(f, ParentPath(p))
    IN  IF Components(p) = <<>> THEN [ok |-> TRUE, fs |-> f]
        ELSE IF r = "ok" THEN [ok |-> TRUE, fs |-> MkdirApply(f, p)]
        ELSE IF r # "NotFound" THEN [ok |-> PathIsDir(f, p), fs |-> f]
        ELSE IF ~HasParent(Components(p)) THEN [ok |-> FALSE, fs |-> f]
        ELSE IF ~up.ok THEN up
        ELSE IF MkdirResult(up.fs, p) = "ok"
             THEN [ok |-> TRUE, fs |-> MkdirApply(up.fs, p)]
        ELSE [ok |-> PathIsDir(up.fs, p), fs |-> up.fs]

RECURSIVE WriteAllAlone(_, _, _, _)
WriteAllAlone(f, p, bytes, pos) ==
    IF pos >= Len(bytes) THEN f
    ELSE WriteAllAlone(WriteApply(f, p, pos, bytes[pos + 1]), p, bytes, pos + 1)

\* write_entity(i) run alone on f
WriteEntityAlone(f, i) ==
    LET path == TargetPath(i)
        parent == ParentPath(path)
        made == IF PathIsDir(f, parent) THEN [ok |-> TRUE, fs |-> f]
                ELSE CreateDirAllAlone(f, parent)
    IN  IF catalog[i].dir
        THEN IF PathExists(f, path) THEN f ELSE CreateDirAllAlone(f, path).fs
        ELSE IF ~HasParent(Components(path)) THEN f
        ELSE IF ~made.ok THEN made.fs
        ELSE IF OpenResult(made.fs, path) # "ok" THEN made.fs
        ELSE WriteAllAlone(OpenApply(made.fs, path), path, catalog[i].data, 0)

RECURSIVE InOrderTree(_, _)
InOrderTree(f, n) ==
    IF n = 0 THEN f ELSE WriteEntityAlone(InOrderTree(f, n - 1), n)

\* the locations a task needs to be directories
Prefixes(abs) == {SubSeq(abs, 1, n) : n \in 0..Len(abs)}

NeededDirs(i) ==
    IF catalog[i].dir THEN Prefixes(Target(i)) ELSE Prefixes(Target(i)) \ {Target(i)}

\* no file entry has its target where an entry needs a directory
NoFileWhereDirNeeded ==
    \A i, j \in Indices : ~catalog[i].dir => Target(i) \notin NeededDirs(j)

\* file entries that sanitize to the same target carry the same bytes
CollidingFilesAgree ==
    \A i, j \in Indices :
        (~catalog[i].dir /\ ~catalog[j].dir /\ Target(i) = Target(j))
            => catalog[i].data = catalog[j].data

\* no file that was there before the run lies where an entry needs a directory
NoStaleFileOnPath ==
    \A i \in Indices : \A a \in NeededDirs(i) : ~IsFileAt(fs0, a)

(***************************************************************************)
(* C8  Order independence as claimed: when unzip_file returns from a run   *)
(* without faults, the tree is the one the in-order, one-at-a-time run     *)
(* leaves, whatever the order and interleaving of the tasks was.           *)
(***************************************************************************)
C8_OrderIndependent ==
    (cpc = "returned" /\ NoFault) => fs = InOrderTree(fs0, Len(catalog))

(***************************************************************************)
(* C8 amended  The same, for catalogs in which no file entry's target is   *)
(* where an entry needs a directory, and file entries with the same target *)
(* carry the same bytes.                                                   *)
(***************************************************************************)
C8_OrderIndependentDisjoint ==
    (cpc = "returned" /\ NoFault /\ NoFileWhereDirNeeded /\ CollidingFilesAgree)
        => fs = InOrderTree(fs0, Len(catalog))

\* the file d/f was written before the task of its directory d/ looked for d
\* d/f with no directory entry for d, beside a file of the root
C8_Witness ==
    /\ cpc = "returned"
    /\ NoFault
    /\ NoFileWhereDirNeeded
    /\ CollidingFilesAgree
    /\ Len(catalog) = 2
    /\ catalog[1].name = <<"d", "/", "f">>
    /\ catalog[2].name = <<"f">>
    /\ IsDirAt(fs, Front(Target(1)))
    /\ IsFileAt(fs, Target(1))
    /\ IsFileAt(fs, Target(2))

(***************************************************************************)
(* C5  When unzip_file returns from a run in which exactly one entry k     *)
(* failed, every other entry whose target is neither k's target nor above  *)
(* or below it is fully extracted: its directory exists, or its file holds *)
(* exactly its content.                                                    *)
(***************************************************************************)
Unrelated(i, k) ==
    ~IsPrefix(Target(k), Target(i)) /\ ~IsPrefix(Target(i), Target(k))

Extracted(i) ==
    IF catalog[i].dir THEN IsDirAt(fs, Target(i))
    ELSE IsFileAt(fs, Target(i)) /\ fs[Target(i)].data = catalog[i].data

C5_FailureIsolated ==
    cpc = "returned" =>
        \A k \in Failed :
            Failed = {k} =>
                \A i \in Indices \ {k} : Unrelated(i, k) => Extracted(i)

(***************************************************************************)
(* C9  Directory race as claimed: two tasks whose targets share a          *)
(* directory that has to exist for both never fail, whatever the           *)
(* interleaving of their checks and mkdirs, and when unzip_file returns    *)
(* both have completed and every shared directory is a directory.          *)
(***************************************************************************)
\* the directories both tasks need, from the one the names are joined to downwards
SharedDirs(i, j) ==
    {a \in NeededDirs(i) \cap NeededDirs(j) : IsPrefix(BaseAbs, a)}

RacingPairs == {p \in Indices \X Indices : p[1] # p[2] /\ SharedDirs(p[1], p[2]) # {}}

RaceHarmless ==
    \A p \in RacingPairs :
        /\ task[p[1]].pc # "failed"
        /\ cpc = "returned" =>
              /\ task[p[1]].pc = "done"
              /\ \A a \in SharedDirs(p[1], p[2]) : IsDirAt(fs, a)

\* RaceHarmless says nothing of a state with no failed task before the return
Decided == Failed # {} \/ cpc = "returned"

C10_Idempotent ==
    (run = 2 /\ cpc = "returned") => fs = tree1

(***************************************************************************)
(* C10 amended  The same, provided any two file entries that sanitize to   *)
(* the same target carry the same bytes (and no operation faults).         *)
(***************************************************************************)
C10_IdempotentUnlessColliding ==
    (run = 2 /\ cpc = "returned" /\ CollidingFilesAgree) => fs = tree1

\* the second call has rewritten f and d/f over the files of the first
C10_Witness ==
    /\ run = 2
    /\ cpc = "returned"
    /\ Len(catalog) = 2
    /\ catalog[1].name = <<"f">>
    /\ catalog[2].name = <<"d", "/", "f">>
    /\ Done = {1, 2}
    /\ fs[Target(1)].data = <<1, 2>>
    /\ fs = tree1

(***************************************************************************)
(* C11  Separator normalization: for every raw name s, sanitize_file_path  *)
(* returns for s what it returns for s with every backslash turned into a  *)
(* forward slash.                                                          *)
(***************************************************************************)
WithForwardSlashes(s) == [i \in 1..Len(s) |-> IF s[i] = "\\" THEN "/" ELSE s[i]]

C11_SeparatorNormalized ==
    san_pc = "ret" => san_out = sanitize_file_path(WithForwardSlashes(san_in), windows)

\* "a\n" has come out as the two segments a and n
C11_Witness ==
    /\ san_pc = "ret"
    /\ san_in = <<"a", "\\", "n">>
    /\ san_out = <<"a", "/", "n">>
    /\ SplitSlash(san_out) = <<<<"a">>, <<"n">>>>

(***************************************************************************)
(* C12  Within a file entry's task the parent directory comes before the   *)
(* content: whenever a task is at the open of its target file or is        *)
(* copying into it, the parent of the target is a directory, whatever the  *)
(* other tasks do and whether or not the catalog has an entry for it.      *)
(***************************************************************************)
C12_ParentBeforeWrite ==
    \A i \in Indices :
        task[i].pc \in {"open", "copy"} => IsDirAt(fs, Front(Resolve(task[i].path)))

\* d/f is being copied, its parent d made by its own task: no entry names d
C12_Witness ==
    /\ Len(catalog) = 2
    /\ catalog[1].name = <<"d", "/", "f">>
    /\ catalog[2].name = <<"f">>
    /\ fs0 = EmptyTree
    /\ task[1].pc = "copy"
    /\ task[1].pos = 1
    /\ task[2].pc = "start"
    /\ IsDirAt(fs, Front(Target(1)))
    /\ IsFileAt(fs, Target(1))

(***************************************************************************)
(* C13  Colliding file paths: when unzip_file returns from a run into an   *)
(* empty tree in which several file entries with the same target have all  *)
(* completed, the target file holds exactly the complete content of one of *)
(* them (the one that wrote last), never bytes of more than one.           *)
(***************************************************************************)
Colliders(i) == {j \in Indices : ~catalog[j].dir /\ Target(j) = Target(i)}

C13_LastWriteWins ==
    (cpc = "returned" /\ fs0 = EmptyTree) =>
        \A i \in Indices :
            (/\ ~catalog[i].dir
             /\ Cardinality(Colliders(i)) > 1
             /\ Colliders(i) \subseteq Done)
            => \E j \in Colliders(i) :
                   /\ IsFileAt(fs, Target(i))
                   /\ fs[Target(i)].data = catalog[j].data

(***************************************************************************)
(* C14  An entry whose name sanitizes to the empty path is handled without *)
(* a crash: its task, directory entry or file entry, never fails of its    *)
(* own, and when it has ended the directory the names are joined to is     *)
(* what it was before, or a directory if it was missing.                   *)
(***************************************************************************)
EmptySanitized(i) == Components(sanitize_file_path(catalog[i].name, windows)) = <<>>

C14_EmptyPathHandled ==
    \A i \in Indices :
        (EmptySanitized(i) /\ Terminated(i) /\ ~Injected(i)) =>
            /\ task[i].pc = "done"
            /\ IsDirAt(fs, BaseAbs)
            /\ BaseAbs \in DOMAIN fs0 => fs[BaseAbs] = fs0[BaseAbs]

(***************************************************************************)
(* C15  unzip_file gives every entry index to exactly one write_entity     *)
(* task: the indices are dispatched in order with none skipped, all of     *)
(* them have been dispatched when the loop is left, a task is dispatched   *)
(* by the loop only, one at a time, and never a second time; and the next  *)
(* spawn never waits for a task in flight.                                 *)
(***************************************************************************)
AllDispatched ==
    /\ Spawned = 1..Cardinality(Spawned)
    /\ cpc # "spawn" => Spawned = Indices
    /\ (cpc = "spawn" /\ Spawned # Indices) => ENABLED Spawn

DispatchedOnce ==
    \A i \in Indices :
        /\ task[i].pc # "unspawned" => task'[i].pc # "unspawned"
        /\ task'[i].pc = "start" => task[i].pc \in {"unspawned", "start"}
        /\ (task[i].pc = "unspawned" /\ task'[i].pc = "start") =>
               /\ cpc = "spawn"
               /\ i = Cardinality(Spawned) + 1
               /\ \A j \in Indices \ {i} : task'[j] = task[j]

C15_OneTaskPerIndex == []AllDispatched /\ [][DispatchedOnce]_vars

\* both tasks are in flight at once, none of them has taken a step yet
C15_Witness ==
    /\ Len(catalog) = 2
    /\ cpc = "join"
    /\ task[1].pc = "start"
    /\ task[2].pc = "start"

(***************************************************************************)
(* C16  No task waits on another - a spawned task that has not ended can   *)
(* always take its next step, whatever the other tasks are at - and under  *)
(* a fair scheduler every run reaches the return of unzip_file with every  *)
(* task completed or failed.                                               *)
(***************************************************************************)
NoTaskWaits ==
    \A i \in Indices :
        task[i].pc \notin {"unspawned", "done", "failed"} => ENABLED TaskStep(i)

AllEnded == \A i \in Indices : task[i].pc \in {"done", "failed"}

C16_RunTerminates == []NoTaskWaits /\ <>(cpc = "returned" /\ AllEnded)

\* unzip_file has returned from the run of d/ and d/f into an empty tree
C16_Witness ==
    /\ cpc = "returned"
    /\ Len(catalog) = 2
    /\ catalog[1].name = <<"d", "/">>
    /\ catalog[2].name = <<"d", "/", "f">>
    /\ fs0 = EmptyTree
    /\ Done = {1, 2}

(***************************************************************************)
(* C17  A task that fails while it copies leaves the tree as it is at that *)
(* moment, its target file included with the bytes written so far, and no  *)
(* step of any task or of unzip_file removes a file or a directory or      *)
(* shortens a file afterwards.                                             *)
(***************************************************************************)
NothingRemoved ==
    \A p \in DOMAIN fs :
        /\ p \in DOMAIN fs'
        /\ fs'[p].kind = fs[p].kind
        /\ fs[p].kind = "file" => Len(fs'[p].data) >= Len(fs[p].data)

FailedCopyLeavesTree ==
    \A i \in Indices :
        (task[i].pc = "copy" /\ task'[i].pc = "failed") => fs' = fs

C17_PartialFileLeft == [][NothingRemoved /\ FailedCopyLeavesTree]_vars

\* the stream of f faulted after its first byte: f holds that byte at the return
C17_Witness ==
    /\ cpc = "returned"
    /\ Len(catalog) = 1
    /\ catalog[1].name = <<"f">>
    /\ catalog[1].data = <<1, 2>>
    /\ fs0 = EmptyTree
    /\ task[1].pc = "failed"
    /\ Injected(1)
    /\ IsFileAt(fs, Target(1))
    /\ fs[Target(1)].data = <<1>>

(***************************************************************************)
(* C18  Dropped segments as claimed: the segments of the path that         *)
(* sanitize_file_path returns are the '/'-split segments of the name (its  *)
(* backslashes taken for separators) without those that are empty, "." or  *)
(* "..", each of the others sanitized, in their order.                     *)
(***************************************************************************)
Segments(s) == SplitSlash(WithForwardSlashes(s))

DotOrEmpty(seg) == seg \in {<<>>, CurDir, ParentDir}

SanitizedKept(s) ==
    LET kept == SelectSeq(Segments(s), LAMBDA seg : ~DotOrEmpty(seg))
    IN  [k \in 1..Len(kept) |-> Sanitize(kept[k], windows)]

C19_DirEntryTargetIsDir ==
    \A i \in Indices :
        (catalog[i].dir /\ task[i].pc = "done") => IsDirAt(fs, Target(i))

\* d/ beside the file entry d: the directory came first, the file's open failed
C19_Witness ==
    /\ Len(catalog) = 2
    /\ catalog[1].name = <<"d">>
    /\ catalog[2].name = <<"d", "/">>
    /\ task[2].pc = "done"
    /\ task[1].pc = "failed"
    /\ ~Injected(1)
    /\ IsDirAt(fs, Target(2))

(***************************************************************************)
(* C20  Each task is fail-stop: a step whose mkdir or open fails ends the  *)
(* task as failed and leaves the tree alone, a failed task takes no        *)
(* further step, and every change of the tree is the step of one task that *)
(* has not failed.                                                         *)
(***************************************************************************)
\* the operation task i is at fails in the current tree
StepFails(i) ==
    \/ /\ task[i].pc = "mkdir"
       /\ Components(task[i].cur) # <<>>
       /\ MkdirResult(fs, task[i].cur) \notin {"ok", "NotFound"}
       /\ ~PathIsDir(fs, task[i].cur)
    \/ /\ task[i].pc = "mkdir_up"
       /\ MkdirResult(fs, Last(task[i].stack)) # "ok"
       /\ ~PathIsDir(fs, Last(task[i].stack))
    \/ /\ task[i].pc = "open"
       /\ OpenResult(fs, task[i].path) # "ok"

FailStop ==
    /\ \A i \in Indices :
          /\ task[i].pc = "failed" => task'[i] = task[i]
          /\ (task[i].pc # "failed" /\ task'[i].pc = "failed") => fs' = fs
          /\ (task'[i] # task[i] /\ StepFails(i)) => task'[i].pc = "failed"
    /\ fs' # fs =>
          \E i \in Indices :
              /\ task[i].pc \in {"mkdir", "mkdir_up", "open", "copy"}
              /\ task'[i] # task[i]
              /\ \A j \in Indices \ {i} : task'[j] = task[j]

C20_FailStop == [][FailStop]_vars

\* d/f could not make its parent, the file d being there: it opened no file
C20_Witness ==
    /\ cpc = "returned"
    /\ Len(catalog) = 2
    /\ catalog[1].name = <<"d">>
    /\ catalog[2].name = <<"d", "/", "f">>
    /\ task[1].pc = "done"
    /\ task[2].pc = "failed"
    /\ task[2].err = "Mkdir"
    /\ IsFileAt(fs, Target(1))
    /\ Target(2) \notin DOMAIN fs

====
